---- MODULE Spec2Model ----
(***************************************************************************)
(* A model of the schema-constrained query pipeline of insight-kopdes:     *)
(* chains/query_chain.py (table selection, schema context construction,    *)
(* SQL generation with retry, the safety validator, the strict schema      *)
(* enforcer, the exposed pipeline) and db/connection.py.                   *)
(*                                                                         *)
(* Statements, table names and column descriptors are strings; the         *)
(* regular expressions of the source are computed character by character.  *)
(***************************************************************************)
EXTENDS Integers, Sequences, FiniteSets, TLC

(***************************************************************************)
(* Characters and the character classes of Python's re module (ASCII).     *)
(***************************************************************************)
\* s[a-1:b] of Python: the characters a..b of s, clipped to s
Slice(s, a, b) ==
    LET lo == IF a < 1 THEN 1 ELSE a
        hi == IF b > Len(s) THEN Len(s) ELSE b
    IN  IF lo > hi THEN "" ELSE SubSeq(s, lo, hi)

\* character i of s, "" outside s
Ch(s, i) == Slice(s, i, i)

CharsOf(s) == {Ch(s, i) : i \in 1..Len(s)}

LowerLetters == "abcdefghijklmnopqrstuvwxyz"

UpperLetters == "ABCDEFGHIJKLMNOPQRSTUVWXYZ"

DigitChars == "0123456789"

LowerSet == CharsOf(LowerLetters)

UpperSet == CharsOf(UpperLetters)

\* [a-zA-Z_]
IdentStart == LowerSet \cup UpperSet \cup {"_"}

\* [a-zA-Z0-9_], which is also \w on ASCII text
IdentChars == IdentStart \cup CharsOf(DigitChars)

\* \s on ASCII text
SpaceSet == {" ", "\t", "\n", "\r", "\f"}

lowerOf == [c \in UpperSet |->
              Ch(LowerLetters, CHOOSE i \in 1..Len(UpperLetters) : Ch(UpperLetters, i) = c)]

upperOf == [c \in LowerSet |->
              Ch(UpperLetters, CHOOSE i \in 1..Len(LowerLetters) : Ch(LowerLetters, i) = c)]

LowerCh(c) == IF c \in UpperSet THEN lowerOf[c] ELSE c

UpperCh(c) == IF c \in LowerSet THEN upperOf[c] ELSE c

\* str.lower()
RECURSIVE Lower(_)
Lower(s) == IF s = "" THEN "" ELSE LowerCh(Head(s)) \o Lower(Tail(s))

\* str.upper()
RECURSIVE Upper(_)
Upper(s) == IF s = "" THEN "" ELSE UpperCh(Head(s)) \o Upper(Tail(s))

\* character i of s is a word character (\w); positions outside s are not
WordAt(s, i) == i >= 1 /\ i <= Len(s) /\ Ch(s, i) \in IdentChars

\* \b holds just before character i of s
Boundary(s, i) == WordAt(s, i - 1) # WordAt(s, i)

\* the literal w (lower case) matches at position i of s under re.IGNORECASE
MatchCI(s, i, w) ==
    /\ i >= 1
    /\ i + Len(w) - 1 <= Len(s)
    /\ Lower(SubSeq(s, i, i + Len(w) - 1)) = w

\* the position after the longest run of characters of set S starting at i
RECURSIVE SkipWhile(_, _, _)
SkipWhile(s, i, S) ==
    IF i <= Len(s) /\ Ch(s, i) \in S THEN SkipWhile(s, i + 1, S) ELSE i

\* the position of the first occurrence of character c at or after i, 0 if none
IndexFrom(s, c, i) ==
    LET P == {j \in i..Len(s) : Ch(s, j) = c}
    IN  IF P = {} THEN 0 ELSE CHOOSE j \in P : \A k \in P : j <= k

\* sub in s (Python's substring test)
Contains(s, sub) ==
    \E i \in 1..(Len(s) - Len(sub) + 1) : SubSeq(s, i, i + Len(sub) - 1) = sub

\* str.strip() on ASCII whitespace
RECURSIVE RStrip(_)
RStrip(s) ==
    IF s # "" /\ Ch(s, Len(s)) \in SpaceSet THEN RStrip(Slice(s, 1, Len(s) - 1)) ELSE s

Strip(s) == LET t == RStrip(s) IN Slice(t, SkipWhile(t, 1, SpaceSet), Len(t))

\* the smallest element of a non-empty set of integers
MinOf(S) == CHOOSE x \in S : \A y \in S : x <= y

\* Python's None
None == "None"

(***************************************************************************)
(* validate_sql                                                            *)
(***************************************************************************)
\* _SELECT_ONLY_RE.search(sql): ^\s*SELECT\s, IGNORECASE
SelectOnlyMatch(sql) ==
    LET i == SkipWhile(sql, 1, SpaceSet)
    IN  /\ MatchCI(sql, i, "select")
        /\ i + 6 <= Len(sql)
        /\ Ch(sql, i + 6) \in SpaceSet

ForbiddenKeywords ==
    {"insert", "update", "delete", "drop", "alter", "truncate", "create"}

\* ForbiddenAt without re.IGNORECASE
ForbiddenAtCased(sql, i) ==
    \/ Ch(sql, i) = ";"
    \/ Slice(sql, i, i + 1) = "--"
    \/ \E kw \in ForbiddenKeywords :
          /\ Boundary(sql, i)
          /\ Slice(sql, i, i + Len(kw) - 1) = Upper(kw)
          /\ Boundary(sql, i + Len(kw))

\* one alternative of _FORBIDDEN_RE matches at position i
ForbiddenAt(sql, i) ==
    \/ Ch(sql, i) = ";"
    \/ Slice(sql, i, i + 1) = "--"
    \/ \E kw \in ForbiddenKeywords :
          /\ Boundary(sql, i)
          /\ MatchCI(sql, i, kw)
          /\ Boundary(sql, i + Len(kw))

\* _FORBIDDEN_RE.search(sql)
ForbiddenMatch(sql) == \E i \in 1..Len(sql) : ForbiddenAt(sql, i)

validate_sql(sql) ==
    IF ~SelectOnlyMatch(sql) THEN FALSE
    ELSE IF ForbiddenMatch(sql) THEN FALSE
    ELSE TRUE

(***************************************************************************)
(* enforce_schema_strictly and extract_table_aliases                       *)
(*                                                                         *)
(* A schema context (schema_summary) is a sequence of records              *)
(* [table, columns, sample_rows]; a column descriptor is the string        *)
(* "<name> (<type>): <description>" that build_schema_summary writes.      *)
(***************************************************************************)
\* s.split(c)[0]
SplitFirst(s, c) ==
    LET i == IndexFrom(s, c, 1) IN IF i = 0 THEN s ELSE Slice(s, 1, i - 1)

\* col.split(" ")[0].split("(")[0]
ColName(col) == SplitFirst(SplitFirst(col, " "), "(")

\* the set valid_tables of lower-cased table names
ValidTables(schema_summary) ==
    {Lower(schema_summary[k].table) : k \in DOMAIN schema_summary}

\* the column names of the context in their stored case
ExactColumns(schema_summary) ==
    UNION {{ColName(schema_summary[k].columns[j]) : j \in DOMAIN schema_summary[k].columns}
           : k \in DOMAIN schema_summary}

\* the set valid_columns of lower-cased column names
ValidColumns(schema_summary) == {Lower(c) : c \in ExactColumns(schema_summary)}

sql_keywords ==
    {"select", "from", "where", "join", "on", "as", "and", "or", "not", "in", "is", "null",
     "count", "sum", "avg", "max", "min", "distinct", "group", "by", "order", "having",
     "left", "right", "inner", "outer", "union", "all", "exists", "like", "between",
     "case", "when", "then", "else", "end", "limit", "offset", "desc", "asc",
     "true", "false", "cast", "extract", "year", "month", "day", "date", "timestamp",
     "varchar", "text", "integer", "bigint", "boolean", "numeric", "decimal", "with"}

sql_functions ==
    {"now", "current_date", "current_timestamp", "coalesce", "concat", "upper", "lower"}

\* [a-zA-Z_][a-zA-Z0-9_]* at position i: the position after the match, 0 if none
IdentEnd(s, i) ==
    IF i >= 1 /\ i <= Len(s) /\ Ch(s, i) \in IdentStart
    THEN SkipWhile(s, i, IdentChars) ELSE 0

\* \s+ at position i: the position after the match, 0 if none
SpacesEnd(s, i) ==
    LET j == SkipWhile(s, i, SpaceSet) IN IF j > i THEN j ELSE 0

\* re.findall keeps, of the matches M (records with their first and last
\* position, at and to; at most one per position), the leftmost one from
\* position i on, then the leftmost one after it, and so on
RECURSIVE LeftToRight(_, _)
LeftToRight(M, i) ==
    LET C == {m \in M : m.at >= i}
    IN  IF C = {} THEN <<>>
        ELSE LET m == CHOOSE x \in C : \A y \in C : x.at <= y.at
             IN  <<m>> \o LeftToRight(M, m.to + 1)

NoMatch == [at |-> 0, to |-> 0, table |-> "", alias |-> ""]

\* a match from position i to just before position e with its two captured
\* groups; e = 0 says that the pattern does not match at i
MatchOf(i, e, table, alias) ==
    IF e = 0 THEN NoMatch ELSE [at |-> i, to |-> e - 1, table |-> table, alias |-> alias]

\* the first captured group of every match
Tables(matches) == [k \in DOMAIN matches |-> matches[k].table]

\* ([a-zA-Z_][a-zA-Z0-9_]*) continuing a match that has reached position a
IdentAfter(s, a) == IF a = 0 THEN 0 ELSE IdentEnd(s, a)

\* \s+ continuing a match that has reached position e
SpacesAfter(s, e) == IF e = 0 THEN 0 ELSE SpacesEnd(s, e)

\* AS\s+ continuing a match that has reached position a, IGNORECASE
AsAfter(s, a) == IF a # 0 /\ MatchCI(s, a, "as") THEN SpacesEnd(s, a + 2) ELSE 0

\* \b<kw>\s+ at position i, IGNORECASE: the position after the match, 0 if none
KeywordEnd(s, kw, i) ==
    IF Boundary(s, i) /\ MatchCI(s, i, kw) THEN SpacesEnd(s, i + Len(kw)) ELSE 0

\* \b<kw>\s+([a-zA-Z_][a-zA-Z0-9_]*) at position i: the position after it
OperandEnd(s, kw, i) == IdentAfter(s, KeywordEnd(s, kw, i))

\* \b<kw>\s+([a-zA-Z_][a-zA-Z0-9_]*) at position i, IGNORECASE: the match with
\* the captured operand as table, NoMatch if there is none
OperandAt(s, kw, i) ==
    MatchOf(i, OperandEnd(s, kw, i),
            Slice(s, KeywordEnd(s, kw, i), OperandEnd(s, kw, i) - 1), "")

\* re.findall(r'\b<kw>\s+([a-zA-Z_][a-zA-Z0-9_]*)', s, re.IGNORECASE)
FindOperands(s, kw) ==
    Tables(LeftToRight({OperandAt(s, kw, i) : i \in 1..Len(s)} \ {NoMatch}, 1))

\* the second group of \b<kw>\s+(ident)\s+(ident) at position i: where it starts
AliasStart(s, kw, i) == SpacesAfter(s, OperandEnd(s, kw, i))

\* \b<kw>\s+(ident)\s+(ident) at position i, IGNORECASE
AliasAt(s, kw, i) ==
    MatchOf(i, IdentAfter(s, AliasStart(s, kw, i)),
            Slice(s, KeywordEnd(s, kw, i), OperandEnd(s, kw, i) - 1),
            Slice(s, AliasStart(s, kw, i), IdentAfter(s, AliasStart(s, kw, i)) - 1))

\* re.findall of the FROM / JOIN alias pattern: a sequence of matches with
\* the pair (table_name, alias)
FindAliases(s, kw) ==
    LeftToRight({AliasAt(s, kw, i) : i \in 1..Len(s)} \ {NoMatch}, 1)

\* the second group of \b<kw>\s+(ident)\s+AS\s+(ident) at position i: where it starts
AsAliasStart(s, kw, i) == AsAfter(s, AliasStart(s, kw, i))

\* \b<kw>\s+(ident)\s+AS\s+(ident) at position i, IGNORECASE
AsAliasAt(s, kw, i) ==
    MatchOf(i, IdentAfter(s, AsAliasStart(s, kw, i)),
            Slice(s, KeywordEnd(s, kw, i), OperandEnd(s, kw, i) - 1),
            Slice(s, AsAliasStart(s, kw, i), IdentAfter(s, AsAliasStart(s, kw, i)) - 1))

\* re.findall of \b(?:FROM|JOIN)\s+(ident)\s+AS\s+(ident), IGNORECASE
FindAsAliases(s) ==
    LeftToRight(({AsAliasAt(s, "from", i) : i \in 1..Len(s)}
                   \cup {AsAliasAt(s, "join", i) : i \in 1..Len(s)}) \ {NoMatch}, 1)

\* AliasesOf without "if table_name.lower() in valid_tables"
AliasesOfAny(matches, valid_tables) == {Lower(matches[k].alias) : k \in DOMAIN matches}

\* the aliases a sequence of (table_name, alias) matches adds
AliasesOf(matches, valid_tables) ==
    {Lower(matches[k].alias) : k \in {j \in DOMAIN matches : Lower(matches[j].table) \in valid_tables}}

extract_table_aliases(s, valid_tables) ==
    AliasesOf(FindAliases(s, "from"), valid_tables)
      \cup AliasesOf(FindAliases(s, "join"), valid_tables)
      \cup AliasesOf(FindAsAliases(s), valid_tables)

\* the closing quote q of a span whose opening quote is at position a
CloseOf(s, q, a) == IF a = 0 THEN 0 ELSE IndexFrom(s, q, a + 1)

\* re.findall of q([^q]*)q from position i, for a quote character q
RECURSIVE FindSpans(_, _, _)
FindSpans(s, q, i) ==
    LET a == IndexFrom(s, q, i)
        b == CloseOf(s, q, a)
    IN  IF b = 0 THEN <<>>
        ELSE <<Slice(s, a + 1, b - 1)>> \o FindSpans(s, q, b + 1)

\* re.findall(r'"([^"]*)"', sql)
QuotedIdentifiers(s) == FindSpans(s, "\"", 1)

\* re.sub of q[^q]*q by '' from position i
RECURSIVE RemoveSpans(_, _, _)
RemoveSpans(s, q, i) ==
    LET a == IndexFrom(s, q, i)
        b == CloseOf(s, q, a)
    IN  IF b = 0 THEN Slice(s, i, Len(s))
        ELSE Slice(s, i, a - 1) \o RemoveSpans(s, q, b + 1)

\* sql_without_quoted: string literals removed, then quoted identifiers
SqlWithoutQuoted(s) == RemoveSpans(RemoveSpans(s, "'", 1), "\"", 1)

\* \b[a-zA-Z_][a-zA-Z0-9_]*\b at position i: the position after it, 0 if none
WordEnd(s, i) == IF Boundary(s, i) THEN IdentEnd(s, i) ELSE 0

\* \b[a-zA-Z_][a-zA-Z0-9_]*\b at position i
IdentifierAt(s, i) == MatchOf(i, WordEnd(s, i), Slice(s, i, WordEnd(s, i) - 1), "")

\* re.findall(r'\b[a-zA-Z_][a-zA-Z0-9_]*\b', s)
FindIdentifiers(s) ==
    Tables(LeftToRight({IdentifierAt(s, i) : i \in 1..Len(s)} \ {NoMatch}, 1))

PotentialIdentifiers(s) == FindIdentifiers(SqlWithoutQuoted(s))

\* the first name of a sequence at one of the positions S: <<name>>, or <<>>
\* when S is empty (the loop ends without a return)
FirstOf(names, S) == IF S = {} THEN <<>> ELSE <<names[MinOf(S)]>>

\* OffendingQuoted with the comparison made on lower-cased names
OffendingQuotedAnyCase(quoted_columns, schema_summary) ==
    FirstOf(quoted_columns,
            {k \in DOMAIN quoted_columns :
                Lower(quoted_columns[k]) \notin ValidColumns(schema_summary)})

\* the loop over quoted_columns: the first one that is no column in exact case
OffendingQuoted(quoted_columns, schema_summary) ==
    FirstOf(quoted_columns,
            {k \in DOMAIN quoted_columns : quoted_columns[k] \notin ExactColumns(schema_summary)})

\* the body of the loop over potential_identifiers: the identifier passes
IdentifierOk(identifier_lower, schema_summary, table_aliases) ==
    \/ identifier_lower \in sql_keywords
    \/ identifier_lower \in sql_functions
    \/ identifier_lower \in table_aliases
    \/ identifier_lower \in ValidTables(schema_summary)
    \/ identifier_lower \in ValidColumns(schema_summary)

\* OffendingIdentifier that goes through potential_identifiers from the end
OffendingIdentifierLast(potential_identifiers, schema_summary, table_aliases) ==
    LET S == {k \in DOMAIN potential_identifiers :
                ~IdentifierOk(Lower(potential_identifiers[k]), schema_summary, table_aliases)}
    IN  IF S = {} THEN <<>> ELSE <<potential_identifiers[CHOOSE k \in S : \A j \in S : j <= k]>>

\* the loop over potential_identifiers: the first one that does not pass
OffendingIdentifier(potential_identifiers, schema_summary, table_aliases) ==
    FirstOf(potential_identifiers,
            {k \in DOMAIN potential_identifiers :
                ~IdentifierOk(Lower(potential_identifiers[k]), schema_summary, table_aliases)})

\* from_tables + join_tables
FromJoinTables(s) == FindOperands(s, "from") \o FindOperands(s, "join")

\* OffendingTable without tbl.lower()
OffendingTableCased(tables, schema_summary) ==
    FirstOf(tables, {k \in DOMAIN tables : tables[k] \notin ValidTables(schema_summary)})

\* the loop over from_tables + join_tables: the first one that is not listed
OffendingTable(tables, schema_summary) ==
    FirstOf(tables, {k \in DOMAIN tables : Lower(tables[k]) \notin ValidTables(schema_summary)})

\* Verdict without the loop over from_tables + join_tables
VerdictWithoutTables(quoted, identifier, table) ==
    IF quoted # <<>> THEN [ok |-> FALSE, name |-> "quoted_column:\"" \o quoted[1] \o "\""]
    ELSE IF identifier # <<>> THEN [ok |-> FALSE, name |-> identifier[1]]
    ELSE [ok |-> TRUE, name |-> None]

\* the returned pair (is_valid, offending_identifier) as [ok, name], from the
\* outcomes of the three loops in the order of the code
Verdict(quoted, identifier, table) ==
    IF quoted # <<>> THEN [ok |-> FALSE, name |-> "quoted_column:\"" \o quoted[1] \o "\""]
    ELSE IF identifier # <<>> THEN [ok |-> FALSE, name |-> identifier[1]]
    ELSE IF table # <<>> THEN [ok |-> FALSE, name |-> "table:" \o table[1]]
    ELSE [ok |-> TRUE, name |-> None]

enforce_schema_strictly(s, schema_summary) ==
    Verdict(OffendingQuoted(QuotedIdentifiers(s), schema_summary),
            OffendingIdentifier(PotentialIdentifiers(s), schema_summary,
                                extract_table_aliases(s, ValidTables(schema_summary))),
            OffendingTable(FromJoinTables(s), schema_summary))

(***************************************************************************)
(* The environment: the metadata document kdmp-tables.json, the live       *)
(* database, and the table-relevance selector.                             *)
(***************************************************************************)
\* the "tables" mapping of the metadata document, in document order
MetaOrder == <<"cooperatives", "provinces", "users">>

MetaTables == {MetaOrder[k] : k \in DOMAIN MetaOrder}

Col(n, t, d) == [name |-> n, type |-> t, description |-> d]

Meta ==
    [t \in MetaTables |->
        CASE t = "cooperatives" ->
               [description |-> "koperasi",
                columns |-> <<Col("id", "BIGINT", "kunci"), Col("name", "VARCHAR(256)", "nama"),
                              Col("villageId", "BIGINT", "desa")>>]
          [] t = "provinces" ->
               [description |-> "",
                columns |-> <<Col("province_id", "BIGINT", ""), Col("name", "VARCHAR(256)", "")>>]
          [] OTHER ->
               [description |-> "pengguna",
                columns |-> <<Col("id", "BIGINT", ""), Col("email", "TEXT", "")>>]]

\* the public tables of the live database and their columns
\* (information_schema.tables, information_schema.columns)
DbOrder == <<"cooperatives", "provinces", "users", "news">>

DbTables == {DbOrder[k] : k \in DOMAIN DbOrder}

DbColumns ==
    [t \in DbTables |->
        CASE t = "cooperatives" -> <<<<"id", "bigint">>, <<"name", "character varying">>,
                                      <<"villageId", "bigint">>>>
          [] t = "provinces" -> <<<<"province_id", "bigint">>, <<"name", "character varying">>>>
          [] t = "users" -> <<<<"id", "bigint">>, <<"email", "text">>>>
          [] OTHER -> <<<<"id", "bigint">>, <<"title", "text">>>>]

\* the number of rows each table of the database holds
TableRows == 3

SAMPLE_ROWS == 2

\* the first n elements of a sequence (seq[:n])
Take(seq, n) == SubSeq(seq, 1, IF n < Len(seq) THEN n ELSE Len(seq))

\* fetch_sample_rows(table_name, limit) when the query succeeds: rows are
\* identified by their number
fetch_sample_rows(table_name, limit) == Take([k \in 1..TableRows |-> k], limit)

\* the sample fetch of table t raises: the table is not in the database, or
\* the environment makes the query fail
SampleFetchFails(t, env) == ~env.db_up \/ t \notin DbTables \/ t \in env.sample_fail

(***************************************************************************)
(* build_schema_summary and _build_schema_from_db.  The argument is        *)
(* [given, names]: given is FALSE when relevant_tables is None.  The       *)
(* result is [ok, summary]; ok is FALSE when the call raises.              *)
(***************************************************************************)
List(names) == [given |-> TRUE, names |-> names]

Omitted == [given |-> FALSE, names |-> <<>>]

\* the truth value of relevant_tables in "relevant_tables if relevant_tables else ..."
Truthy(req) == req.given /\ req.names # <<>>

\* f"{c['name']} ({c['type']}): {c.get('description', '')}"
ColDesc(c) == c.name \o " (" \o c.type \o "): " \o c.description

\* the samples attached to table t: safe_samples, [] when the fetch raises
SafeSamples(t, env) ==
    IF SampleFetchFails(t, env) THEN <<>>
    ELSE Take(fetch_sample_rows(t, SAMPLE_ROWS), SAMPLE_ROWS)

\* the descriptor appended to summary for table_name
FileDescriptor(t, env) ==
    [table |-> t,
     description |-> Meta[t].description,
     columns |-> [j \in DOMAIN Meta[t].columns |-> ColDesc(Meta[t].columns[j])],
     sample_rows |-> SafeSamples(t, env)]

\* the loop over tables_to_process; names missing from the document are skipped
RECURSIVE FileSummary(_, _)
FileSummary(names, env) ==
    IF names = <<>> THEN <<>>
    ELSE IF Head(names) \notin MetaTables THEN FileSummary(Tail(names), env)
    ELSE <<FileDescriptor(Head(names), env)>> \o FileSummary(Tail(names), env)

\* the descriptor appended to parts for table t
DbDescriptor(t) ==
    [table |-> t,
     columns |-> [j \in DOMAIN DbColumns[t] |-> DbColumns[t][j][1] \o " (" \o DbColumns[t][j][2] \o ")"],
     sample_rows |-> Take(fetch_sample_rows(t, SAMPLE_ROWS), SAMPLE_ROWS)]

\* the loop over tables_to_process of the live database; a table whose
\* description or sample fetch raises is left out
RECURSIVE DbSummary(_, _)
DbSummary(names, env) ==
    IF names = <<>> THEN <<>>
    ELSE IF Head(names) \notin DbTables \/ SampleFetchFails(Head(names), env)
    THEN DbSummary(Tail(names), env)
    ELSE <<DbDescriptor(Head(names))>> \o DbSummary(Tail(names), env)

_build_schema_from_db(req, env) ==
    IF ~env.db_up THEN [ok |-> FALSE, summary |-> <<>>]
    ELSE [ok |-> TRUE,
          summary |-> DbSummary(IF Truthy(req) THEN req.names ELSE DbOrder, env)]

build_schema_summary(req, env) ==
    IF env.meta_file = "ok"
    THEN [ok |-> TRUE,
          summary |-> FileSummary(IF Truthy(req) THEN req.names ELSE MetaOrder, env)]
    ELSE _build_schema_from_db(req, env)

(***************************************************************************)
(* The table-relevance selector: search_relevant_tables.                   *)
(***************************************************************************)
common_tables ==
    <<"cooperatives", "provinces", "districts", "subdistricts", "villages", "users",
      "cooperative_types", "klus", "npaks", "institutions", "news", "village_potentials">>

geographical_tables ==
    <<"provinces", "districts", "subdistricts", "villages", "village_potentials">>

\* the elements of a sequence
Elems(seq) == {seq[k] : k \in DOMAIN seq}

\* the elements of seq that satisfy Keep, in order
RECURSIVE Filter(_, _)
Filter(seq, Keep) ==
    IF seq = <<>> THEN <<>>
    ELSE IF Head(seq) \in Keep THEN <<Head(seq)>> \o Filter(Tail(seq), Keep)
    ELSE Filter(Tail(seq), Keep)

extract_table_names(response_content) ==
    LET response_lower == Lower(response_content)
        found_tables == Filter(common_tables,
                               {t \in Elems(common_tables) : Contains(response_lower, t)})
    IN  IF Elems(found_tables) \cap {"villages", "village_potentials"} # {}
        THEN found_tables \o Filter(geographical_tables,
                                    Elems(geographical_tables) \ Elems(found_tables))
        ELSE found_tables

\* any(word in question_lower for word in words)
AnyWord(question_lower, words) == \E w \in words : Contains(question_lower, w)

get_fallback_tables(q) ==
    LET question_lower == Lower(q)
    IN  IF AnyWord(question_lower, {"koperasi", "cooperative", "berapa koperasi", "jumlah koperasi"})
        THEN <<"cooperatives", "provinces">>
        ELSE IF AnyWord(question_lower, {"provinsi", "daerah", "wilayah"})
        THEN <<"provinces", "districts", "cooperatives">>
        ELSE IF AnyWord(question_lower, {"user", "pengguna", "anggota"})
        THEN <<"users", "user_roles">>
        ELSE IF AnyWord(question_lower, {"berita", "news"})
        THEN <<"news">>
        ELSE <<"cooperatives", "provinces", "users">>

\* what the assistant run of the vector store can answer
Responses == {"cooperatives dan provinces", "Tabel users", "villages", "tidak ada tabel"}

MaxTables == 5

\* the values one call of search_relevant_tables(q, max_tables) can return: the
\* tables named by a completed run, or the keyword fallback when the run fails
\* or raises
search_relevant_tables(q, max_tables) ==
    {Take(extract_table_names(r), max_tables) : r \in Responses} \cup {get_fallback_tables(q)}

\* the questions asked
Questions == {"ada berapa koperasi", "daftar berita terbaru"}

(***************************************************************************)
(* The completion service and the extraction of the sql field              *)
(* (ask_llm_for_sql, ask_llm_for_sql_with_feedback).                       *)
(***************************************************************************)
\* the statements the completion service answers with
GenStatements ==
    {"SELECT name FROM cooperatives",
     " SELECT name FROM cooperatives;",
     "SELECT * FROM cooperatives; DROP TABLE cooperatives",
     "SELECT nama FROM cooperatives",
     "SELECT email FROM users",
     "SELECT 'Data tidak tersedia'::text as message"}

\* a string as a JSON string literal
RECURSIVE JsonString(_)
JsonString(s) ==
    IF s = "" THEN ""
    ELSE (IF Head(s) \in {"\"", "\\"} THEN "\\" \o Head(s) ELSE Head(s)) \o JsonString(Tail(s))

\* A completion is its raw text with what json.loads makes of it:
\*   object      the text is a JSON object with a string under "sql"
\*   nonstring   the text is a JSON object with a non-string under "sql"
\*   nokey       the text is a JSON object without the key "sql"
\*   scalar      the text is a JSON number
\*   wrapped     the text is no JSON, and its first-{ to last-} span is a
\*               JSON object with a string under "sql"
\*   garbage     the text is no JSON and holds no such span
\*   llm_error   llm.invoke raises
Completion(shape, text, value) == [shape |-> shape, text |-> text, sql |-> value]

Completions ==
    {Completion("object", "{\"sql\": \"" \o JsonString(g) \o "\"}", g) : g \in GenStatements}
      \cup {Completion("wrapped",
                       "Berikut query: {\"sql\": \"SELECT name FROM cooperatives\"} semoga membantu",
                       "SELECT name FROM cooperatives"),
            Completion("nonstring", "{\"sql\": null}", ""),
            Completion("nokey", "{\"query\": \"SELECT 1\"}", ""),
            Completion("scalar", "42", ""),
            Completion("garbage", "Maaf, saya tidak bisa membantu", ""),
            Completion("llm_error", "", "")}

\* an outcome of a generation call: {"sql": value} returned (ok), or an
\* exception with text exc raised
Returned(value, is_string) == [ok |-> TRUE, is_string |-> is_string, sql |-> value, exc |-> ""]

Raised(exc) == [ok |-> FALSE, is_string |-> FALSE, sql |-> "", exc |-> exc]

\* the parsing tail of a generation call, on the completion c; prefix is the
\* text of the ValueError
ExtractSql(c, prefix) ==
    CASE c.shape = "llm_error" -> Raised("Connection error.")
      [] c.shape \in {"object", "wrapped"} -> Returned(c.sql, TRUE)
      [] c.shape = "nonstring" -> Returned(c.sql, FALSE)
      [] c.shape = "scalar" -> Raised("argument of type 'int' is not iterable")
      [] OTHER -> Raised(prefix \o Strip(c.text))

\* the tables a schema context describes, in its order
TablesOf(summary) == [k \in DOMAIN summary |-> summary[k].table]

\* the outcomes of ask_llm_for_sql(question): the selector is asked, the
\* schema is built for its answer, the completion is parsed.  Each outcome
\* carries the selector's tables, the tables of the context and the
\* completion, of shape none when llm.invoke was not reached.
ask_llm_for_sql(q, env) ==
    UNION {IF build_schema_summary(List(t), env).ok
           THEN {[out |-> ExtractSql(c, "Invalid JSON response from LLM:\n"), tables |-> t,
                  context |-> TablesOf(build_schema_summary(List(t), env).summary),
                  completion |-> c] : c \in Completions}
           ELSE {[out |-> Raised("could not connect to server"), tables |-> t,
                  context |-> <<>>, completion |-> Completion("none", "", "")]}
           : t \in search_relevant_tables(q, MaxTables)}

\* the outcomes of ask_llm_for_sql_with_feedback(question, error_feedback, schema_summary)
ask_llm_for_sql_with_feedback(q, error_feedback, summary) ==
    {[out |-> ExtractSql(c, "Invalid JSON response from LLM on retry:\n"), completion |-> c]
     : c \in Completions}

\* sql = result["sql"].strip(); if sql.endswith(";"): sql = sql[:-1]
Normalise(value) ==
    LET t == Strip(value)
    IN  IF t # "" /\ Ch(t, Len(t)) = ";" THEN Slice(t, 1, Len(t) - 1) ELSE t

(***************************************************************************)
(* db/connection.py: execute_read_query, and the result serializer.        *)
(***************************************************************************)
MAX_ROWS == 5000

\* a scalar of a result row: its Python type and its str() text
Value(type, text) == [type |-> type, text |-> text]

\* d[k] = v on a dict kept as the sequence of its (key, value) pairs in
\* insertion order
DictSet(d, k, v) ==
    IF \E i \in DOMAIN d : d[i][1] = k
    THEN [i \in DOMAIN d |-> IF d[i][1] = k THEN <<k, v>> ELSE d[i]]
    ELSE Append(d, <<k, v>>)

\* dict(zip(keys, vals))
RECURSIVE DictZip(_, _, _)
DictZip(d, keys, vals) ==
    IF keys = <<>> \/ vals = <<>> THEN d
    ELSE DictZip(DictSet(d, Head(keys), Head(vals)), Tail(keys), Tail(vals))

\* the result sets the engine can answer a statement with: the column names
\* of the result metadata and the row tuples (fetchall)
EngineResults ==
    {[columns |-> <<"name">>, tuples |-> <<>>],
     [columns |-> <<"name", "created_at">>,
      tuples |-> <<<<Value("str", "Koperasi A"), Value("datetime", "2024-01-02 03:04:05")>>,
                   <<Value("str", "Koperasi B"), Value("NoneType", "None")>>>>],
     [columns |-> <<"count", "count">>,
      tuples |-> <<<<Value("int", "7"), Value("Decimal", "2.50")>>>>]}

\* what the engine can answer a statement with: conn.execute raises, or
\* gives a result set
EngineAnswers ==
    {[ok |-> FALSE, exc |-> "syntax error at or near"]}
      \cup {[ok |-> TRUE, columns |-> r.columns, tuples |-> r.tuples] : r \in EngineResults}

\* RowDicts that leaves out the slice [:max_rows]
RowDictsUncapped(cur, cap) ==
    [k \in DOMAIN cur.tuples |-> DictZip(<<>>, cur.columns, cur.tuples[k])]

\* [dict(zip(columns, r)) for r in result.fetchall()[:max_rows]]
RowDicts(cur, cap) ==
    [k \in DOMAIN Take(cur.tuples, cap) |-> DictZip(<<>>, cur.columns, cur.tuples[k])]

\* execute_read_query(sql, params, max_rows) when the engine answers with cur:
\* ok is FALSE when the call raises
execute_read_query(cur, cap) ==
    IF cur.ok
    THEN [ok |-> TRUE, exc |-> "", columns |-> cur.columns, rows |-> RowDicts(cur, cap)]
    ELSE [ok |-> FALSE, exc |-> cur.exc, columns |-> <<>>, rows |-> <<>>]

\* obj.isoformat() from str(obj) of a datetime: the date and the time are
\* joined by T
IsoFormat(text) ==
    LET i == IndexFrom(text, " ", 1)
    IN  IF i = 0 THEN text ELSE Slice(text, 1, i - 1) \o "T" \o Slice(text, i + 1, Len(text))

safe_serialize(obj) ==
    IF obj.type \in {"datetime", "date"} THEN Value("str", IsoFormat(obj.text))
    ELSE IF obj.type = "Decimal" THEN Value("float", obj.text)
    ELSE Value("str", obj.text)

\* for k, v in row.items(): row[k] = safe_serialize(v)
SerializeRow(row) == [i \in DOMAIN row |-> <<row[i][1], safe_serialize(row[i][2])>>]

\* list(r.values())
DictValues(row) == [i \in DOMAIN row |-> row[i][2]]

(***************************************************************************)
(* State.                                                                  *)
(***************************************************************************)
VARIABLES
    pc,               \* the statement of the running function that is next
    env,              \* the metadata file, the database, the failing sample fetches
    question,
    cursor,           \* what the engine answered the executed statement with
    max_rows,         \* the max_rows execute_read_query is called with
    generation,       \* the last generation call: its arguments, the completion, its outcome
    relevant_tables,  \* run_query_pipeline's relevant_tables
    gen_tables,       \* the relevant_tables of the last ask_llm_for_sql call
    schema_summary,   \* the schema context validation uses
    sql,              \* the candidate statement (raw_sql, sql)
    alt,              \* a second statement, compared with sql
    enf,              \* the last result of enforce_schema_strictly
    enf_alt,          \* its result on alt
    aliases,          \* the last result of extract_table_aliases
    max_retries,
    attempt,
    last_error,
    gen_calls,        \* the generation calls made
    executed,         \* the statements passed to execute_read_query
    result,           \* the result of execute_read_query
    ret,              \* what the running function returned or raised
    calls,            \* the validator calls made on the current candidate
    steps             \* the number of pieces an input under test is made of

vars == <<pc, env, question, cursor, max_rows, generation, relevant_tables, gen_tables,
          schema_summary, sql, alt, enf, enf_alt, aliases, max_retries, attempt, last_error,
          gen_calls, executed, result, ret, calls, steps>>

NoResult == [ok |-> FALSE, name |-> "unset"]

NoRet == [kind |-> "none"]

\* the record of a generation call: the function, the error feedback and the
\* tables of the schema context it was given or made, the completion it read
\* and its outcome
GenerationCall(fn, error_feedback, o) ==
    [fn |-> fn, error_feedback |-> error_feedback, context |-> o.context,
     completion |-> o.completion, out |-> o.out]

NoGeneration ==
    GenerationCall("none", None,
                   [context |-> <<>>, completion |-> Completion("none", "", ""),
                    out |-> Raised("")])

\* the record of one call of a validator on a statement and what it answered
ValidatorCall(fn, statement, ok) == [fn |-> fn, sql |-> statement, ok |-> ok]

\* the function returned value
Return(value) == [kind |-> "return", value |-> value]

\* the function raised an exception with text exc
Raise(exc) == [kind |-> "raise", exc |-> exc]

Envs ==
    {[meta_file |-> f, db_up |-> d, sample_fail |-> sf]
     : f \in {"ok", "missing", "corrupt"}, d \in BOOLEAN, sf \in {{}, {"cooperatives"}}}

\* the metadata document is read, the database answers
HealthyEnv == [meta_file |-> "ok", db_up |-> TRUE, sample_fail |-> {}]

\* the default of the parameter max_retries
DefaultMaxRetries == 2

\* no statement, no list of tables and no schema context yet
Unset == relevant_tables = <<>> /\ schema_summary = <<>> /\ sql = ""

\* the state every function starts from, but for its arguments
Fresh ==
    /\ env \in Envs
    /\ question \in Questions
    /\ cursor = [ok |-> TRUE, columns |-> <<>>, tuples |-> <<>>]
    /\ max_rows = MAX_ROWS
    /\ generation = NoGeneration
    /\ gen_tables = <<>>
    /\ alt = ""
    /\ enf = NoResult
    /\ enf_alt = NoResult
    /\ aliases = {}
    /\ attempt = 0
    /\ last_error = None
    /\ gen_calls = 0
    /\ executed = <<>>
    /\ result = [ok |-> FALSE, exc |-> "", columns |-> <<>>, rows |-> <<>>]
    /\ ret = NoRet
    /\ calls = <<>>
    /\ steps = 0

(***************************************************************************)
(* run_query_pipeline                                                      *)
(***************************************************************************)
\* relevant_tables = search_relevant_tables(question, max_tables=5)
SearchTables ==
    /\ pc = "rq_search"
    /\ \E t \in search_relevant_tables(question, MaxTables) : relevant_tables' = t
    /\ pc' = "rq_generate"
    /\ UNCHANGED <<env, question, generation, cursor, max_rows, gen_tables, schema_summary, sql,
                   alt, enf, enf_alt, aliases, max_retries, attempt, last_error, gen_calls,
                   executed, result, ret, calls, steps>>

\* llm_resp = ask_llm_for_sql(question); raw_sql = llm_resp["sql"].strip(),
\* without one trailing semicolon.  An exception of the call, or of strip()
\* on a value that is no string, leaves the function.
Generate ==
    /\ pc = "rq_generate"
    /\ gen_calls' = gen_calls + 1
    /\ \E o \in ask_llm_for_sql(question, env) :
          /\ gen_tables' = o.tables
          /\ generation' = GenerationCall("ask_llm_for_sql", None, o)
          /\ IF ~o.out.ok
             THEN /\ ret' = Raise(o.out.exc)
                  /\ pc' = "done"
                  /\ sql' = sql
             ELSE IF ~o.out.is_string
             THEN /\ ret' = Raise("'NoneType' object has no attribute 'strip'")
                  /\ pc' = "done"
                  /\ sql' = sql
             ELSE /\ sql' = Normalise(o.out.sql)
                  /\ pc' = "rq_check"
                  /\ ret' = ret
    /\ UNCHANGED <<env, question, cursor, max_rows, relevant_tables, schema_summary, alt, enf,
                   enf_alt, aliases, max_retries, attempt, last_error, executed, result, calls,
                   steps>>

\* the check for an error response of the generator
CheckErrorResponse ==
    /\ pc = "rq_check"
    /\ IF Contains(sql, "Gagal generate SQL yang valid") \/ Contains(sql, "Data tidak tersedia")
       THEN /\ ret' = Return([error |-> "Tidak dapat membuat query yang valid untuk pertanyaan ini",
                              generated_sql |-> sql,
                              suggestion |-> "Coba perbaiki pertanyaan atau pastikan data yang dicari tersedia dalam sistem"])
            /\ pc' = "done"
       ELSE /\ ret' = ret
            /\ pc' = "rq_build"
    /\ UNCHANGED <<env, question, generation, cursor, max_rows, relevant_tables, gen_tables,
                   schema_summary, sql, alt, enf, enf_alt, aliases, max_retries, attempt,
                   last_error, gen_calls, executed, result, calls, steps>>

\* schema_summary = build_schema_summary(relevant_tables)
BuildValidationSchema ==
    /\ pc = "rq_build"
    /\ LET b == build_schema_summary(List(relevant_tables), env)
       IN  IF b.ok
           THEN /\ schema_summary' = b.summary
                /\ pc' = "rq_validate"
                /\ ret' = ret
           ELSE /\ schema_summary' = schema_summary
                /\ pc' = "done"
                /\ ret' = Raise("could not connect to server")
    /\ UNCHANGED <<env, question, generation, cursor, max_rows, relevant_tables, gen_tables,
                   sql, alt, enf, enf_alt, aliases, max_retries, attempt, last_error, gen_calls,
                   executed, result, calls, steps>>

\* ValidateSafety with the result of validate_sql left unused
ValidateSafetyIgnored ==
    /\ pc = "rq_validate"
    /\ calls' = Append(calls, ValidatorCall("validate_sql", sql, validate_sql(sql)))
    /\ ret' = ret
    /\ pc' = "rq_enforce"
    /\ UNCHANGED <<env, question, generation, cursor, max_rows, relevant_tables, gen_tables,
                   schema_summary, sql, alt, enf, enf_alt, aliases, max_retries, attempt,
                   last_error, gen_calls, executed, result, steps>>

\* if not validate_sql(raw_sql): return the error payload
ValidateSafety ==
    /\ pc = "rq_validate"
    /\ calls' = Append(calls, ValidatorCall("validate_sql", sql, validate_sql(sql)))
    /\ IF ~validate_sql(sql)
       THEN /\ ret' = Return([error |-> "Generated SQL failed final validation.",
                              generated_sql |-> sql])
            /\ pc' = "done"
       ELSE /\ ret' = ret
            /\ pc' = "rq_enforce"
    /\ UNCHANGED <<env, question, generation, cursor, max_rows, relevant_tables, gen_tables,
                   schema_summary, sql, alt, enf, enf_alt, aliases, max_retries, attempt,
                   last_error, gen_calls, executed, result, steps>>

\* EnforceSchema without "if not ok: return": the statement goes on to execution
EnforceSchemaUnchecked ==
    /\ pc = "rq_enforce"
    /\ enf' = enforce_schema_strictly(sql, schema_summary)
    /\ calls' = Append(calls, ValidatorCall("enforce_schema_strictly", sql, enf'.ok))
    /\ ret' = ret
    /\ pc' = "rq_execute"
    /\ UNCHANGED <<env, question, generation, cursor, max_rows, relevant_tables, gen_tables,
                   schema_summary, sql, alt, enf_alt, aliases, max_retries, attempt, last_error,
                   gen_calls, executed, result, steps>>

\* ok, invalid_name = enforce_schema_strictly(raw_sql, schema_summary)
EnforceSchema ==
    /\ pc = "rq_enforce"
    /\ enf' = enforce_schema_strictly(sql, schema_summary)
    /\ calls' = Append(calls, ValidatorCall("enforce_schema_strictly", sql, enf'.ok))
    /\ IF ~enf'.ok
       THEN /\ ret' = Return([error |-> "Query uses invalid column or table: " \o enf'.name,
                              generated_sql |-> sql])
            /\ pc' = "done"
       ELSE /\ ret' = ret
            /\ pc' = "rq_execute"
    /\ UNCHANGED <<env, question, generation, cursor, max_rows, relevant_tables, gen_tables,
                   schema_summary, sql, alt, enf_alt, aliases, max_retries, attempt, last_error,
                   gen_calls, executed, result, steps>>

\* result = execute_read_query(raw_sql, params=None, max_rows=MAX_ROWS)
Execute ==
    /\ pc = "rq_execute"
    /\ executed' = Append(executed, sql)
    /\ \E cur \in EngineAnswers :
          /\ cursor' = cur
          /\ result' = execute_read_query(cur, max_rows)
          /\ IF cur.ok
             THEN /\ ret' = ret
                  /\ pc' = "rq_shape"
             ELSE /\ ret' = Return([error |-> "Query execution failed",
                                    details |-> cur.exc,
                                    generated_sql |-> sql])
                  /\ pc' = "done"
    /\ UNCHANGED <<env, question, generation, max_rows, relevant_tables, gen_tables,
                   schema_summary, sql, alt, enf, enf_alt, aliases, max_retries, attempt,
                   last_error, gen_calls, calls, steps>>

\* the rows are serialized, the payload is built, the summarizer is called;
\* an exception of the summarizer's completion call leaves the function
Shape ==
    /\ pc = "rq_shape"
    /\ LET rows == [k \in DOMAIN result.rows |-> SerializeRow(result.rows[k])]
           payload == [type |-> "table",
                       columns |-> result.columns,
                       rows |-> [k \in DOMAIN rows |-> DictValues(rows[k])]]
       IN  \/ ret' = Return([text |-> "Ringkasan",
                             payload |-> payload,
                             meta |-> [row_count |-> Len(rows), generated_sql |-> sql]])
           \/ ret' = Raise("Connection error.")
    /\ pc' = "done"
    /\ UNCHANGED <<env, question, generation, cursor, max_rows, relevant_tables, gen_tables,
                   schema_summary, sql, alt, enf, enf_alt, aliases, max_retries, attempt,
                   last_error, gen_calls, executed, result, calls, steps>>

Init == Fresh /\ Unset /\ pc = "rq_search" /\ max_retries = DefaultMaxRetries

Next ==
    \/ SearchTables
    \/ Generate
    \/ CheckErrorResponse
    \/ BuildValidationSchema
    \/ ValidateSafety
    \/ EnforceSchema
    \/ Execute
    \/ Shape

Spec == Init /\ [][Next]_vars
(***************************************************************************)
(* ask_llm_for_sql_with_retry                                              *)
(***************************************************************************)
\* the largest max_retries a call is made with
MaxRetries == 2

Fallback == "SELECT 'Gagal generate SQL yang valid'::text as error"

\* Exhausted for range(max_retries)
ExhaustedEarly(index, retries) == index >= retries

\* for attempt in range(max_retries + 1): the range is used up at index
Exhausted(index, retries) == index >= retries + 1

\* schema_summary = build_schema_summary(), before the loop and outside its try
RetryBuild ==
    /\ pc = "rt_build"
    /\ IF build_schema_summary(Omitted, env).ok
       THEN /\ schema_summary' = build_schema_summary(Omitted, env).summary
            /\ pc' = "rt_generate"
            /\ ret' = ret
       ELSE /\ schema_summary' = schema_summary
            /\ pc' = "done"
            /\ ret' = Raise("could not connect to server")
    /\ UNCHANGED <<env, question, generation, cursor, max_rows, relevant_tables, gen_tables,
                   sql, alt, enf, enf_alt, aliases, max_retries, attempt, last_error, gen_calls,
                   executed, result, calls, steps>>

\* the outcomes of the generation call of the attempt: the normal prompt
\* first, the prompt with error feedback afterwards
GenerationOutcomes ==
    IF attempt = 0 THEN ask_llm_for_sql(question, env)
    ELSE {[out |-> o.out, tables |-> gen_tables, context |-> TablesOf(schema_summary),
           completion |-> o.completion]
          : o \in ask_llm_for_sql_with_feedback(question, last_error, schema_summary)}

\* one pass through the head of the loop body: the generation call and
\* sql = result["sql"].strip() without one trailing semicolon; an exception
\* is caught, becomes last_error and ends the attempt
RetryGenerate ==
    /\ pc = "rt_generate"
    /\ ~Exhausted(attempt, max_retries)
    /\ gen_calls' = gen_calls + 1
    /\ calls' = <<>>
    /\ \E o \in GenerationOutcomes :
          /\ gen_tables' = o.tables
          /\ generation' = IF attempt = 0
                           THEN GenerationCall("ask_llm_for_sql", None, o)
                           ELSE GenerationCall("ask_llm_for_sql_with_feedback", last_error, o)
          /\ IF ~o.out.ok
             THEN /\ last_error' = "Error dalam generate SQL: " \o o.out.exc
                  /\ attempt' = attempt + 1
                  /\ UNCHANGED <<pc, sql>>
             ELSE IF ~o.out.is_string
             THEN /\ last_error' = "Error dalam generate SQL: 'NoneType' object has no attribute 'strip'"
                  /\ attempt' = attempt + 1
                  /\ UNCHANGED <<pc, sql>>
             ELSE /\ sql' = Normalise(o.out.sql)
                  /\ pc' = "rt_validate"
                  /\ UNCHANGED <<last_error, attempt>>
    /\ UNCHANGED <<env, question, cursor, max_rows, relevant_tables, schema_summary, alt, enf,
                   enf_alt, aliases, max_retries, executed, result, ret, steps>>

\* RetryValidate that goes to the next attempt without recording why
RetryValidateSilent ==
    /\ pc = "rt_validate"
    /\ calls' = Append(calls, ValidatorCall("validate_sql", sql, validate_sql(sql)))
    /\ IF ~validate_sql(sql)
       THEN /\ last_error' = last_error
            /\ attempt' = attempt + 1
            /\ pc' = "rt_generate"
       ELSE /\ pc' = "rt_enforce"
            /\ UNCHANGED <<last_error, attempt>>
    /\ UNCHANGED <<env, question, generation, cursor, max_rows, relevant_tables, gen_tables,
                   schema_summary, sql, alt, enf, enf_alt, aliases, max_retries, gen_calls,
                   executed, result, ret, steps>>

\* if not validate_sql(sql): last_error = ...; continue
RetryValidate ==
    /\ pc = "rt_validate"
    /\ calls' = Append(calls, ValidatorCall("validate_sql", sql, validate_sql(sql)))
    /\ IF ~validate_sql(sql)
       THEN /\ last_error' = "SQL harus dimulai dengan SELECT dan tidak boleh mengandung operasi modifikasi data"
            /\ attempt' = attempt + 1
            /\ pc' = "rt_generate"
       ELSE /\ pc' = "rt_enforce"
            /\ UNCHANGED <<last_error, attempt>>
    /\ UNCHANGED <<env, question, generation, cursor, max_rows, relevant_tables, gen_tables,
                   schema_summary, sql, alt, enf, enf_alt, aliases, max_retries, gen_calls,
                   executed, result, ret, steps>>

\* RetryEnforce that returns the statement whatever enforce_schema_strictly
\* answered
RetryEnforceUnchecked ==
    /\ pc = "rt_enforce"
    /\ enf' = enforce_schema_strictly(sql, schema_summary)
    /\ calls' = Append(calls, ValidatorCall("enforce_schema_strictly", sql, enf'.ok))
    /\ ret' = Return([sql |-> sql])
    /\ pc' = "done"
    /\ UNCHANGED <<last_error, attempt>>
    /\ UNCHANGED <<env, question, generation, cursor, max_rows, relevant_tables, gen_tables,
                   schema_summary, sql, alt, enf_alt, aliases, max_retries, gen_calls, executed,
                   result, steps>>

\* ok, invalid_name = enforce_schema_strictly(sql, schema_summary); if not ok:
\* last_error = ...; continue; otherwise return {"sql": sql}
RetryEnforce ==
    /\ pc = "rt_enforce"
    /\ enf' = enforce_schema_strictly(sql, schema_summary)
    /\ calls' = Append(calls, ValidatorCall("enforce_schema_strictly", sql, enf'.ok))
    /\ IF ~enf'.ok
       THEN /\ last_error' = "Nama tabel/kolom '" \o enf'.name
                               \o "' tidak ditemukan dalam schema. Gunakan hanya nama yang ada di kdmp-tables.json"
            /\ attempt' = attempt + 1
            /\ pc' = "rt_generate"
            /\ ret' = ret
       ELSE /\ ret' = Return([sql |-> sql])
            /\ pc' = "done"
            /\ UNCHANGED <<last_error, attempt>>
    /\ UNCHANGED <<env, question, generation, cursor, max_rows, relevant_tables, gen_tables,
                   schema_summary, sql, alt, enf_alt, aliases, max_retries, gen_calls, executed,
                   result, steps>>

\* the loop ends without a return: the fixed fallback statement is returned
RetryFallback ==
    /\ pc = "rt_generate"
    /\ Exhausted(attempt, max_retries)
    /\ ret' = Return([sql |-> Fallback])
    /\ pc' = "done"
    /\ UNCHANGED <<env, question, generation, cursor, max_rows, relevant_tables, gen_tables,
                   schema_summary, sql, alt, enf, enf_alt, aliases, max_retries, attempt,
                   last_error, gen_calls, executed, result, calls, steps>>

InitRetry == Fresh /\ Unset /\ pc = "rt_build" /\ max_retries \in 0..MaxRetries

NextRetry ==
    \/ RetryBuild
    \/ RetryGenerate
    \/ RetryValidate
    \/ RetryEnforce
    \/ RetryFallback

SpecRetry == InitRetry /\ [][NextRetry]_vars

(***************************************************************************)
(* validate_sql called on statements put together from fragments.          *)
(***************************************************************************)
\* the largest number of fragments of a statement
MaxFrags == 3

Fragments ==
    {"SELECT ", "select\n", "Select", " ", "name", "FROM t", ";", "-", "'Drop'", "DROP", "delete",
     "x_", " UPDATE ", "\"Create\"", "s", "'"}

\* one more fragment at the end of the statement
AddFragment ==
    /\ pc = "vs_input"
    /\ steps < MaxFrags
    /\ steps' = steps + 1
    /\ \E f \in Fragments : sql' = sql \o f
    /\ UNCHANGED <<pc, env, question, generation, cursor, max_rows, relevant_tables, gen_tables,
                   schema_summary, alt, enf, enf_alt, aliases, max_retries, attempt, last_error,
                   gen_calls, executed, result, ret, calls>>

\* validate_sql(sql)
CallValidate ==
    /\ pc = "vs_input"
    /\ calls' = <<ValidatorCall("validate_sql", sql, validate_sql(sql))>>
    /\ ret' = Return(validate_sql(sql))
    /\ pc' = "done"
    /\ UNCHANGED <<env, question, generation, cursor, max_rows, relevant_tables, gen_tables,
                   schema_summary, sql, alt, enf, enf_alt, aliases, max_retries, attempt,
                   last_error, gen_calls, executed, result, steps>>

InitValidate ==
    /\ Fresh
    /\ Unset
    /\ pc = "vs_input"
    /\ max_retries = DefaultMaxRetries
    /\ env = HealthyEnv
    /\ question = "ada berapa koperasi"

NextValidate == AddFragment \/ CallValidate

SpecValidate == InitValidate /\ [][NextValidate]_vars

(***************************************************************************)
(* build_schema_summary called on lists of table names.                    *)
(***************************************************************************)
\* the largest number of names of a list
MaxReq == 2

\* the names asked for: tables of the metadata document, a table only the
\* database has, and a name no source has
RequestNames == {"cooperatives", "provinces", "news", "ghost"}

\* one more name at the end of the list
AddName ==
    /\ pc = "bs_input"
    /\ steps < MaxReq
    /\ steps' = steps + 1
    /\ \E n \in RequestNames : relevant_tables' = Append(relevant_tables, n)
    /\ UNCHANGED <<pc, env, question, generation, cursor, max_rows, gen_tables, schema_summary,
                   sql, alt, enf, enf_alt, aliases, max_retries, attempt, last_error, gen_calls,
                   executed, result, ret, calls>>

\* build_schema_summary(relevant_tables)
CallBuild ==
    /\ pc = "bs_input"
    /\ IF build_schema_summary(List(relevant_tables), env).ok
       THEN /\ schema_summary' = build_schema_summary(List(relevant_tables), env).summary
            /\ ret' = Return(schema_summary')
       ELSE /\ schema_summary' = schema_summary
            /\ ret' = Raise("could not connect to server")
    /\ pc' = "done"
    /\ UNCHANGED <<env, question, generation, cursor, max_rows, relevant_tables, gen_tables,
                   sql, alt, enf, enf_alt, aliases, max_retries, attempt, last_error, gen_calls,
                   executed, result, calls, steps>>

InitSchema ==
    /\ Fresh
    /\ Unset
    /\ pc = "bs_input"
    /\ max_retries = DefaultMaxRetries
    /\ question = "ada berapa koperasi"

NextSchema == AddName \/ CallBuild

SpecSchema == InitSchema /\ [][NextSchema]_vars

(***************************************************************************)
(* enforce_schema_strictly and extract_table_aliases called on statements  *)
(* put together from clauses, against schema contexts that                 *)
(* build_schema_summary returns.                                           *)
(***************************************************************************)
\* the largest number of clauses after the select list
MaxClauses == 2

SelectLists ==
    {"SELECT name", "SELECT c1.id", "SELECT \"villageId\"", "SELECT \"villageid\"",
     "SELECT \"cooperatives\".id", "SELECT COUNT(*) AS \"total\""}

Clauses ==
    {"FROM cooperatives", "FROM cooperatives c1", "FROM secrets c1",
     "JOIN provinces AS p ON c1.id = p.province_id",
     "WHERE c1.id IN (SELECT id FROM cooperatives)", "WHERE \"Name\" = 1",
     "from Cooperatives As C1"}

\* the metadata document is missing, the context comes from the database
DatabaseEnv == [meta_file |-> "missing", db_up |-> TRUE, sample_fail |-> {}]

\* the statement in upper and lower case by turns
RECURSIVE Mixed(_, _)
Mixed(s, up) ==
    IF s = "" THEN ""
    ELSE (IF up THEN UpperCh(Head(s)) ELSE LowerCh(Head(s))) \o Mixed(Tail(s), ~up)

\* statements that differ from s in letter case only
Recasings(s) == {Upper(s), Mixed(s, TRUE)}

\* statements that differ from s in the text of its first string literal
\* only: the text is replaced by quote-free text that names a table after
\* FROM and after JOIN, by a double-quoted span, and by a plain word
LiteralVariants(s) ==
    LET open == IndexFrom(s, "'", 1)
        close == IF open = 0 THEN 0 ELSE IndexFrom(s, "'", open + 1)
    IN  IF close = 0 THEN {}
        ELSE {Slice(s, 1, open) \o text \o Slice(s, close, Len(s))
              : text \in {"FROM secrets", "x JOIN secrets s", "\"Nama\"", "aktif"}}

\* one more clause at the end of the statement
AddClause ==
    /\ pc = "en_input"
    /\ steps < MaxClauses
    /\ steps' = steps + 1
    /\ \E c \in Clauses : sql' = sql \o " " \o c
    /\ UNCHANGED <<pc, env, question, generation, cursor, max_rows, relevant_tables, gen_tables,
                   schema_summary, alt, enf, enf_alt, aliases, max_retries, attempt, last_error,
                   gen_calls, executed, result, ret, calls>>

\* enforce_schema_strictly(sql, schema_summary), with the aliases it works
\* with, and the same call on a statement that differs in letter case only
\* or in the text of a string literal only
CallEnforce ==
    /\ pc = "en_input"
    /\ enf' = enforce_schema_strictly(sql, schema_summary)
    /\ aliases' = extract_table_aliases(sql, ValidTables(schema_summary))
    /\ calls' = <<ValidatorCall("enforce_schema_strictly", sql, enf'.ok)>>
    /\ \E a \in Recasings(sql) \cup LiteralVariants(sql) :
          /\ alt' = a
          /\ enf_alt' = enforce_schema_strictly(a, schema_summary)
    /\ ret' = Return(enf')
    /\ pc' = "done"
    /\ UNCHANGED <<env, question, generation, cursor, max_rows, relevant_tables, gen_tables,
                   schema_summary, sql, max_retries, attempt, last_error, gen_calls, executed,
                   result, steps>>

InitEnforce ==
    /\ Fresh
    /\ pc = "en_input"
    /\ max_retries = DefaultMaxRetries
    /\ question = "ada berapa koperasi"
    /\ \/ env = HealthyEnv /\ relevant_tables \in {<<"cooperatives">>, <<"cooperatives", "provinces">>}
       \/ env = DatabaseEnv /\ relevant_tables = <<"cooperatives", "provinces">>
    /\ schema_summary = build_schema_summary(List(relevant_tables), env).summary
    /\ sql \in SelectLists

NextEnforce == AddClause \/ CallEnforce

SpecEnforce == InitEnforce /\ [][NextEnforce]_vars

\* statements whose bare tokens and FROM/JOIN operands are keywords,
\* functions, aliases, columns, words of string literals and unknown names
StatementHeads ==
    {"SELECT name", "SELECT name FROM name", "SELECT nama FROM name", "SELECT nama, alamat",
     "SELECT EXTRACT(YEAR FROM name)", "SELECT lower(name), 'Aktif dan berizin'",
     "SELECT \"villageid\", nama", "SELECT c1.id FROM cooperatives c1 JOIN c1"}

\* enforce_schema_strictly on statements that begin with these, against the
\* context of cooperatives and provinces
InitIdentifiers ==
    /\ Fresh
    /\ pc = "en_input"
    /\ max_retries = DefaultMaxRetries
    /\ question = "ada berapa koperasi"
    /\ env = HealthyEnv
    /\ relevant_tables = <<"cooperatives", "provinces">>
    /\ schema_summary = build_schema_summary(List(relevant_tables), env).summary
    /\ sql \in StatementHeads

SpecIdentifiers == InitIdentifiers /\ [][NextEnforce]_vars

\* both functions that validate candidates
InitGates == Init \/ InitRetry

NextGates == Next \/ NextRetry

SpecGates == InitGates /\ [][NextGates]_vars

(***************************************************************************)
(* execute_read_query on the result sets of the engine, under every cap.   *)
(***************************************************************************)
\* the most rows the engine answers with
MaxTuples == 3

\* the largest max_rows a call is made with
MaxCap == 3

\* the column names of the result sets
ResultColumns == {<<"id">>, <<"id", "name">>}

\* the values of a result row
Scalars == {Value("int", "1"), Value("str", "Koperasi A")}

\* the engine's result set has one more row
AddTuple ==
    /\ pc = "ex_call"
    /\ cursor.ok
    /\ steps < MaxTuples
    /\ \E t \in [DOMAIN cursor.columns -> Scalars] :
          cursor' = [cursor EXCEPT !.tuples = Append(@, t)]
    /\ steps' = steps + 1
    /\ UNCHANGED <<pc, env, question, generation, max_rows, relevant_tables, gen_tables,
                   schema_summary, sql, alt, enf, enf_alt, aliases, max_retries, attempt,
                   last_error, gen_calls, executed, result, ret, calls>>

\* execute_read_query(sql, None, max_rows) returns its result or raises
CallExecute ==
    /\ pc = "ex_call"
    /\ result' = execute_read_query(cursor, max_rows)
    /\ ret' = IF result'.ok
              THEN Return([columns |-> result'.columns, rows |-> result'.rows])
              ELSE Raise(result'.exc)
    /\ pc' = "done"
    /\ UNCHANGED <<env, question, generation, cursor, max_rows, relevant_tables, gen_tables,
                   schema_summary, sql, alt, enf, enf_alt, aliases, max_retries, attempt,
                   last_error, gen_calls, executed, calls, steps>>

InitExecute ==
    /\ pc = "ex_call"
    /\ env = HealthyEnv
    /\ question = "ada berapa koperasi"
    /\ cursor \in {[ok |-> FALSE, exc |-> "syntax error at or near"]}
                    \cup {[ok |-> TRUE, columns |-> c, tuples |-> <<>>] : c \in ResultColumns}
    /\ max_rows \in 0..MaxCap
    /\ generation = NoGeneration
    /\ Unset
    /\ gen_tables = <<>>
    /\ alt = ""
    /\ enf = NoResult
    /\ enf_alt = NoResult
    /\ aliases = {}
    /\ max_retries = DefaultMaxRetries
    /\ attempt = 0
    /\ last_error = None
    /\ gen_calls = 0
    /\ executed = <<>>
    /\ result = [ok |-> FALSE, exc |-> "", columns |-> <<>>, rows |-> <<>>]
    /\ ret = NoRet
    /\ calls = <<>>
    /\ steps = 0

NextExecute == AddTuple \/ CallExecute

SpecExecute == InitExecute /\ [][NextExecute]_vars

(***************************************************************************)
(* Properties of run_query_pipeline and ask_llm_for_sql_with_retry.        *)
(***************************************************************************)
\* the calls of validator fn on statement that answered ok
Answered(fn, statement, ok) == ValidatorCall(fn, statement, ok) \in Elems(calls)

\* a validator has rejected the candidate
Rejected == \E k \in DOMAIN calls : ~calls[k].ok

\* the running function has returned an object with these keys
ReturnedKeys(keys) == pc = "done" /\ ret.kind = "return" /\ keys \subseteq DOMAIN ret.value

\* C1: run_query_pipeline passes a statement to execute_read_query only after
\* validate_sql answered true and enforce_schema_strictly answered (True, None)
\* on it in the same run; once a validator has rejected the statement, nothing
\* has been executed and an error payload has been returned.
ExecutesOnlyValidated ==
    /\ \A k \in DOMAIN executed :
          /\ Answered("validate_sql", executed[k], TRUE)
          /\ Answered("enforce_schema_strictly", executed[k], TRUE)
          /\ enf = [ok |-> TRUE, name |-> None]
    /\ Rejected => executed = <<>> /\ ReturnedKeys({"error"})

\* a run that executed its statement, and a run either validator ended
ExecutedRun == pc = "done" /\ executed # <<>> /\ ~Rejected

\* C2: when all max_retries + 1 attempts of ask_llm_for_sql_with_retry have
\* failed, exactly max_retries + 1 generation calls were made and the fixed
\* fallback statement is returned; no exception leaves the loop, and never
\* are more than max_retries + 1 generation calls made.
RetryConverges ==
    /\ gen_calls <= max_retries + 1
    /\ attempt <= max_retries + 1
    /\ ret.kind = "raise" => gen_calls = 0
    /\ attempt = max_retries + 1 =>
          /\ gen_calls = max_retries + 1
          /\ pc \in {"rt_generate", "done"}
          /\ pc = "done" => ret = Return([sql |-> Fallback])
    /\ (pc = "done" /\ ret = Return([sql |-> Fallback])) =>
          gen_calls = max_retries + 1 /\ attempt = max_retries + 1

\* the default budget used up: three generation calls, then the fallback
ThreeFailedAttempts ==
    /\ pc = "done"
    /\ max_retries = 2
    /\ gen_calls = 3
    /\ ret = Return([sql |-> Fallback])

\* C3: run_query_pipeline never raises: it ends with a success object
\* {text, payload, meta} or an error object with error and generated_sql.
NeverRaises ==
    pc = "done" =>
        /\ ret.kind = "return"
        /\ \/ {"text", "payload", "meta"} \subseteq DOMAIN ret.value
           \/ {"error", "generated_sql"} \subseteq DOMAIN ret.value

\* C4: run_query_pipeline surfaces a validation failure only after
\* max_retries + 1 generation attempts.
SurfacesAfterRetries ==
    (pc = "done" /\ Rejected) => gen_calls = max_retries + 1

\* C6: in both functions the enforcer is called on a candidate only right
\* after validate_sql answered true on it, and a candidate validate_sql
\* rejected is neither passed to the enforcer, nor executed, nor returned.
SafetyBeforeSchema ==
    /\ \A k \in DOMAIN calls :
          calls[k].fn = "enforce_schema_strictly" =>
              k > 1 /\ calls[k - 1] = ValidatorCall("validate_sql", calls[k].sql, TRUE)
    /\ \A k \in DOMAIN calls :
          (calls[k].fn = "validate_sql" /\ ~calls[k].ok) =>
              /\ k = Len(calls)
              /\ ~\E j \in DOMAIN executed : executed[j] = calls[k].sql
              /\ ~(pc = "done" /\ ret = Return([sql |-> calls[k].sql]))

\* the statement with a second, destructive statement is stopped by
\* validate_sql, in the pipeline and in the retry loop
UnsafeStopped ==
    /\ calls = <<ValidatorCall("validate_sql",
                               "SELECT * FROM cooperatives; DROP TABLE cooperatives", FALSE)>>
    /\ pc \in {"done", "rt_generate"}

(***************************************************************************)
(* Properties of validate_sql.                                             *)
(***************************************************************************)
\* after leading whitespace the text begins with SELECT in some letter case
BeginsWithSelect(s) ==
    \E k \in 0..Len(s) :
        /\ \A i \in 1..k : Ch(s, i) \in SpaceSet
        /\ Lower(Slice(s, k + 1, k + 6)) = "select"

\* w stands at position i of s in some letter case, with no word character
\* next to it on either side
WholeWordAt(s, i, w) ==
    /\ Lower(Slice(s, i, i + Len(w) - 1)) = w
    /\ Ch(s, i - 1) \notin IdentChars
    /\ Ch(s, i + Len(w)) \notin IdentChars

\* a semicolon, the marker --, or one of the seven keywords as a whole word
HasForbidden(s) ==
    \/ \E i \in 1..Len(s) : Ch(s, i) = ";"
    \/ \E i \in 1..Len(s) : Ch(s, i) = "-" /\ Ch(s, i + 1) = "-"
    \/ \E i \in 1..Len(s) :
          \E w \in {"insert", "update", "delete", "drop", "alter", "truncate", "create"} :
              WholeWordAt(s, i, w)

\* C5: validate_sql answers true only for statements that begin, after
\* leading whitespace, with SELECT in any letter case, and answers false for
\* every statement with a semicolon, the marker -- or one of the seven
\* keywords as a whole word, inside string literals and quoted identifiers too.
ValidateSqlContract ==
    (pc = "done" /\ ret.kind = "return") =>
        /\ ret.value => BeginsWithSelect(sql)
        /\ HasForbidden(sql) => ~ret.value

\* a keyword in mixed case inside a string literal is refused
KeywordInLiteralRefused ==
    pc = "done" /\ sql = "SELECT 'Drop'" /\ ret = Return(FALSE)

(***************************************************************************)
(* Properties of build_schema_summary.                                     *)
(***************************************************************************)
\* the tables the metadata source in use describes
SourceTables == IF env.meta_file = "ok" THEN MetaTables ELSE DbTables

\* C10: for any list of names given to build_schema_summary, empty or not,
\* the returned context has descriptors only for names that are in the list
\* and in the metadata source.
OnlyRequestedTables ==
    (pc = "done" /\ ret.kind = "return") =>
        \A k \in DOMAIN ret.value :
            ret.value[k].table \in Elems(relevant_tables) \cap SourceTables

(***************************************************************************)
(* Properties of enforce_schema_strictly and extract_table_aliases.        *)
(***************************************************************************)
\* the positions of the double quotes of s
QuotePositions(s) == {i \in 1..Len(s) : Ch(s, i) = "\""}

\* the position of the n-th double quote of s
QuoteAt(s, n) ==
    CHOOSE i \in QuotePositions(s) : Cardinality({j \in QuotePositions(s) : j <= i}) = n

\* the double-quoted spans of s, in order: the text between the first and
\* the second double quote, between the third and the fourth, and so on
DoubleQuotedSpans(s) ==
    [k \in 1..(Cardinality(QuotePositions(s)) \div 2) |->
        Slice(s, QuoteAt(s, 2 * k - 1) + 1, QuoteAt(s, 2 * k) - 1)]

\* the column names, as the metadata source spells them, of the tables of
\* the schema context
KnownColumns ==
    UNION {IF env.meta_file = "ok"
           THEN {Meta[schema_summary[k].table].columns[j].name
                 : j \in DOMAIN Meta[schema_summary[k].table].columns}
           ELSE {DbColumns[schema_summary[k].table][j][1]
                 : j \in DOMAIN DbColumns[schema_summary[k].table]}
           : k \in DOMAIN schema_summary}

\* the double-quoted spans of sql that are no column name in exact case
UnknownSpans == {k \in DOMAIN DoubleQuotedSpans(sql) : DoubleQuotedSpans(sql)[k] \notin KnownColumns}

\* C7: enforce_schema_strictly accepts a statement only if every
\* double-quoted span equals, case included, a column name of the schema
\* context; otherwise it rejects with the reason quoted_column:"<name>" for
\* the first span that does not, with no case-insensitive fallback.
QuotedExactCase ==
    (pc = "done" /\ UnknownSpans # {}) =>
        enf = [ok |-> FALSE,
               name |-> "quoted_column:\"" \o DoubleQuotedSpans(sql)[MinOf(UnknownSpans)] \o "\""]

\* a quoted identifier that differs from the column villageId in case only
QuotedCaseRejected ==
    /\ pc = "done"
    /\ sql = "SELECT \"villageid\" FROM cooperatives"
    /\ enf = [ok |-> FALSE, name |-> "quoted_column:\"villageid\""]

\* C8: for a statement without double-quoted spans, a change of letter case
\* does not change whether enforce_schema_strictly accepts it.
CaseInsensitiveBare ==
    (pc = "done" /\ QuotePositions(sql) = {} /\ Lower(alt) = Lower(sql)) => enf.ok = enf_alt.ok

\* the statement of the example and its upper-case form, both accepted
RecasedAccepted ==
    /\ pc = "done"
    /\ sql = "SELECT name FROM cooperatives"
    /\ alt = "SELECT NAME FROM COOPERATIVES"
    /\ enf.ok
    /\ enf_alt.ok

\* the words of s: the pieces between its blanks
RECURSIVE Words(_)
Words(s) ==
    IF IndexFrom(s, " ", 1) = 0 THEN <<s>>
    ELSE <<Slice(s, 1, IndexFrom(s, " ", 1) - 1)>> \o Words(Slice(s, IndexFrom(s, " ", 1) + 1, Len(s)))

\* the word is an identifier and nothing else
IsIdentifier(w) ==
    w # "" /\ Ch(w, 1) \in IdentStart /\ \A i \in 1..Len(w) : Ch(w, i) \in IdentChars

\* the identifier a word begins with, "" if it begins with none
LeadingIdentifier(w) ==
    IF Ch(w, 1) \in IdentStart THEN Slice(w, 1, SkipWhile(w, 1, IdentChars) - 1) ELSE ""

\* the words at k and k + 1 are FROM or JOIN and a table operand
OperandOf(w, k) ==
    /\ k + 1 <= Len(w)
    /\ Lower(w[k]) \in {"from", "join"}
    /\ IsIdentifier(w[k + 1])

\* the tokens that follow the table operand at k + 1, directly or after AS
FollowersOf(w, k) ==
    {Lower(LeadingIdentifier(w[j])) :
        j \in {i \in {k + 2, k + 3} :
                 /\ i <= Len(w)
                 /\ LeadingIdentifier(w[i]) # ""
                 /\ i = k + 3 => Lower(w[k + 2]) = "as"}}

\* the names of the tables of the schema context
ListedTables == {schema_summary[k].table : k \in DOMAIN schema_summary}

\* the tokens that follow, directly or after AS, a FROM/JOIN table operand
\* that is (listed = TRUE) or is not (listed = FALSE) a table of the context
BoundTo(w, listed) ==
    UNION {FollowersOf(w, k) :
             k \in {i \in DOMAIN w : OperandOf(w, i) /\ ((Lower(w[i + 1]) \in ListedTables) = listed)}}

AliasExample == "SELECT name FROM cooperatives c1 WHERE c1.id IN (SELECT id FROM cooperatives)"

\* C9: extract_table_aliases records a token only when it follows, directly
\* or after AS, a FROM/JOIN operand that is a table of the context in any
\* letter case; a statement with a token bound only to a table outside the
\* context does not have it as an alias and is rejected; in the example
\* statement c1 is an alias and the statement, with its inner id, is accepted.
AliasesOnlyForListed ==
    pc = "done" =>
        LET listed == BoundTo(Words(sql), TRUE)
        IN  /\ aliases \subseteq listed
            /\ \A x \in BoundTo(Words(sql), FALSE) \ listed : x \notin aliases /\ ~enf.ok
            /\ sql = AliasExample => "c1" \in aliases /\ enf.ok

\* the example statement, accepted with its alias
AliasExampleAccepted ==
    pc = "done" /\ sql = AliasExample /\ aliases = {"c1"} /\ enf.ok

(***************************************************************************)
(* Properties of execute_read_query and of the result payload.             *)
(***************************************************************************)
\* the dict of a result row whose column names are distinct
RowOf(columns, tuple) == [i \in DOMAIN columns |-> <<columns[i], tuple[i]>>]

\* C11: when the engine answers with n rows, execute_read_query(sql,
\* max_rows = C) returns an object with the keys columns and rows and nothing
\* else, whose rows are the first min(n, C) rows of the engine, in its order.
ReturnsFirstRows ==
    (pc = "done" /\ cursor.ok)
        => /\ ret.kind = "return"
           /\ DOMAIN ret.value = {"columns", "rows"}
           /\ ret.value.columns = cursor.columns
           /\ Len(ret.value.rows) = MinOf({Len(cursor.tuples), max_rows})
           /\ \A k \in DOMAIN ret.value.rows :
                 ret.value.rows[k] = RowOf(cursor.columns, cursor.tuples[k])

\* a call that found more rows than max_rows and returned max_rows of them
RowsCapped ==
    /\ pc = "done"
    /\ cursor.ok
    /\ max_rows > 0
    /\ Len(cursor.tuples) > max_rows
    /\ Len(ret.value.rows) = max_rows

(***************************************************************************)
(* Properties of the generation calls.                                     *)
(***************************************************************************)
\* the text of the ValueError a generation function raises on a completion
\* it cannot read
MalformedCompletion(fn, text) ==
    (IF fn = "ask_llm_for_sql" THEN "Invalid JSON response from LLM:\n"
     ELSE "Invalid JSON response from LLM on retry:\n") \o text

\* a generation call has read a completion
CompletionRead == generation.completion.shape \notin {"none", "llm_error"}

\* C12: on every completion the extraction either returns {"sql": s}, s the
\* string under the key sql of the JSON object that the completion is or that
\* its first-{ to last-} span is, or raises the ValueError that carries the
\* text of the completion; it never returns or raises anything else.
ExtractsAllOrNothing ==
    CompletionRead
        => \/ /\ generation.out.ok
              /\ generation.out.is_string
              /\ generation.completion.shape \in {"object", "wrapped"}
              /\ generation.out.sql = generation.completion.sql
           \/ /\ ~generation.out.ok
              /\ generation.out.exc
                   = MalformedCompletion(generation.fn, Strip(generation.completion.text))

\* C13: when search_relevant_tables has answered run_query_pipeline with no
\* table, the schema context the pipeline builds describes tables of the
\* default set of get_fallback_tables only, and at least one.
EmptySelectionUsesCoreTables ==
    (pc \in {"rq_validate", "rq_enforce", "rq_execute", "rq_shape"} /\ relevant_tables = <<>>)
        => /\ schema_summary # <<>>
           /\ Elems(TablesOf(schema_summary)) \subseteq Elems(get_fallback_tables(question))

\* C14: ask_llm_for_sql_with_retry returns either the statement of the last
\* generation call, stripped and without one trailing semicolon, after both
\* validators accepted it and every earlier attempt failed, or, with all
\* max_retries + 1 attempts failed, the fallback statement; while it goes on
\* generating, every attempt so far has failed.
StopsAtFirstValid ==
    /\ (pc = "done" /\ ret.kind = "return") =>
          \/ /\ ret.value.sql = Normalise(generation.out.sql)
             /\ Answered("validate_sql", ret.value.sql, TRUE)
             /\ Answered("enforce_schema_strictly", ret.value.sql, TRUE)
             /\ ~Rejected
             /\ gen_calls = attempt + 1
          \/ /\ ret.value.sql = Fallback
             /\ attempt = max_retries + 1
             /\ gen_calls = attempt
    /\ pc = "rt_generate" =>
          /\ gen_calls = attempt
          /\ gen_calls > 0 => Rejected \/ ~generation.out.ok \/ ~generation.out.is_string

\* the second attempt gave a statement with a trailing semicolon, which was
\* returned without it
SecondAttemptAccepted ==
    /\ pc = "done"
    /\ attempt = 1
    /\ gen_calls = 2
    /\ generation.out.sql = " SELECT name FROM cooperatives;"
    /\ ret = Return([sql |-> "SELECT name FROM cooperatives"])

\* the diagnostic the failure of the last attempt of the retry loop stands
\* for: the text of the caught exception, the safety diagnostic, or the
\* schema diagnostic naming the identifier enforce_schema_strictly gave
FailureDiagnostic ==
    IF ~generation.out.ok
    THEN "Error dalam generate SQL: " \o generation.out.exc
    ELSE IF ~generation.out.is_string
    THEN "Error dalam generate SQL: 'NoneType' object has no attribute 'strip'"
    ELSE IF calls # <<>> /\ calls[Len(calls)] = ValidatorCall("validate_sql", sql, FALSE)
    THEN "SQL harus dimulai dengan SELECT dan tidak boleh mengandung operasi modifikasi data"
    ELSE "Nama tabel/kolom '" \o enf.name
           \o "' tidak ditemukan dalam schema. Gunakan hanya nama yang ada di kdmp-tables.json"

\* C15: in ask_llm_for_sql_with_retry the generation call of attempt 0 is
\* ask_llm_for_sql, made with no error recorded; the generation call of every
\* later attempt is ask_llm_for_sql_with_feedback, given the diagnostic of
\* the failure of the attempt before it, which is not empty, and the context
\* of the whole schema.
FeedbackFollowsFailure ==
    [][gen_calls' = gen_calls + 1 =>
          IF attempt = 0
          THEN /\ generation'.fn = "ask_llm_for_sql"
               /\ generation'.error_feedback = None
               /\ last_error = None
          ELSE /\ generation'.fn = "ask_llm_for_sql_with_feedback"
               /\ generation'.error_feedback = FailureDiagnostic
               /\ generation'.error_feedback \notin {"", None}
               /\ generation'.context = TablesOf(build_schema_summary(Omitted, env).summary)]_vars

\* an attempt made with the diagnostic of a statement that named an unknown
\* column
RetriedWithSchemaDiagnostic ==
    /\ generation.fn = "ask_llm_for_sql_with_feedback"
    /\ generation.error_feedback
         = "Nama tabel/kolom 'nama' tidak ditemukan dalam schema. Gunakan hanya nama yang ada di kdmp-tables.json"
    /\ attempt = 1
    /\ pc = "rt_validate"

(***************************************************************************)
(* Properties of the bare tokens and of the FROM/JOIN operands.            *)
(***************************************************************************)
\* position i of s lies outside the string literals and the double-quoted
\* spans of s
Outside(s, i) ==
    /\ Cardinality({j \in 1..(i - 1) : Ch(s, j) = "'"}) % 2 = 0
    /\ Cardinality({j \in 1..(i - 1) : Ch(s, j) = "\""}) % 2 = 0

\* the positions where a bare token of s begins
TokenStarts(s) ==
    {i \in 1..Len(s) :
        /\ Ch(s, i) \in IdentStart
        /\ i = 1 \/ Ch(s, i - 1) \notin IdentChars
        /\ Outside(s, i)}

\* the bare token of s that begins at i
TokenAt(s, i) == Slice(s, i, SkipWhile(s, i, IdentChars) - 1)

\* the lower-cased names of the tables and columns of the schema context
KnownNames == {Lower(n) : n \in ListedTables \cup KnownColumns}

\* the positions of the bare tokens of sql that are no keyword, no allowed
\* function, no recorded alias and no name of the context
FailingTokens ==
    {i \in TokenStarts(sql) :
        Lower(TokenAt(sql, i)) \notin sql_keywords \cup sql_functions \cup aliases \cup KnownNames}

\* what enforce_schema_strictly answers when the bare tokens at the
\* positions failing are the ones that match nothing, and no quoted
\* identifier has failed
BareVerdict(failing) ==
    IF failing = {}
    THEN enf.ok \/ Slice(enf.name, 1, 6) = "table:"
    ELSE enf = [ok |-> FALSE, name |-> TokenAt(sql, MinOf(failing))]

\* C16: when every quoted identifier is valid, enforce_schema_strictly
\* accepts only if every bare token outside string literals and quoted spans
\* is a keyword, an allowed function, a recorded alias, or the name of a
\* table or column of the context in any letter case; otherwise it answers
\* (False, t), t the first bare token that is none of these, whatever the
\* FROM/JOIN operands are; a failing quoted identifier is reported before
\* any bare token.
FirstUnknownTokenReported ==
    pc = "done" =>
        IF UnknownSpans = {} THEN BareVerdict(FailingTokens)
        ELSE Slice(enf.name, 1, 14) = "quoted_column:"

\* two unknown bare tokens and an unknown table: the first token is reported
FirstOfTwoTokens ==
    /\ pc = "done"
    /\ sql = "SELECT nama, alamat FROM secrets c1"
    /\ enf = [ok |-> FALSE, name |-> "nama"]

\* the identifiers that follow the keyword kw in the words w, in order
OperandsAfter(w, kw) ==
    LET at == {k \in DOMAIN w :
                 /\ k + 1 <= Len(w)
                 /\ Lower(w[k]) = kw
                 /\ LeadingIdentifier(w[k + 1]) # ""}
        nth[n \in 1..Cardinality(at)] ==
            CHOOSE k \in at : Cardinality({j \in at : j <= k}) = n
    IN  [n \in 1..Cardinality(at) |-> LeadingIdentifier(w[nth[n] + 1])]

\* the FROM operands, then the JOIN operands, that are no table of the context
UnlistedOperands(w) ==
    LET operands == OperandsAfter(w, "from") \o OperandsAfter(w, "join")
    IN  [k \in {j \in DOMAIN operands : Lower(operands[j]) \notin {Lower(t) : t \in ListedTables}}
           |-> operands[k]]

\* what enforce_schema_strictly answers when unlisted are the FROM/JOIN
\* operands, by position, that are no table of the context
OperandVerdict(unlisted) ==
    /\ enf.ok => DOMAIN unlisted = {}
    /\ (DOMAIN unlisted # {} /\ UnknownSpans = {} /\ FailingTokens = {})
          => enf = [ok |-> FALSE, name |-> "table:" \o unlisted[MinOf(DOMAIN unlisted)]]

\* C17: in a statement enforce_schema_strictly accepts, every identifier
\* that follows FROM or JOIN is a table of the context in some letter case;
\* a statement with such an operand that is no table, and that has no other
\* failure because the operand is a column, a keyword, a function or an
\* alias, is rejected with table:<operand>.
OperandsAreTables == pc = "done" => OperandVerdict(UnlistedOperands(Words(sql)))

\* the column name used as a table is rejected as a table
ColumnAsTableRejected ==
    /\ pc = "done"
    /\ sql = "SELECT name FROM name"
    /\ enf = [ok |-> FALSE, name |-> "table:name"]

(***************************************************************************)
(* Properties of the sample rows of the schema context.                    *)
(***************************************************************************)
\* the descriptors of table t in the returned context
DescriptorsOf(t) == {k \in DOMAIN ret.value : ret.value[k].table = t}

\* C18: a sample fetch that raises neither makes build_schema_summary raise
\* nor leaves the table out: on the metadata path and on the database path
\* every requested table of the source has its descriptor, with no sample
\* rows when its fetch fails, and no descriptor has more than SAMPLE_ROWS
\* sample rows.
SampleFailureKeepsTable ==
    (pc = "done" /\ (env.meta_file = "ok" \/ env.db_up)) =>
        /\ ret.kind = "return"
        /\ \A k \in DOMAIN ret.value : Len(ret.value[k].sample_rows) <= SAMPLE_ROWS
        /\ \A t \in Elems(relevant_tables) \cap SourceTables :
              /\ DescriptorsOf(t) # {}
              /\ SampleFetchFails(t, env) =>
                    \A k \in DescriptorsOf(t) : ret.value[k].sample_rows = <<>>

(***************************************************************************)
(* Properties of the result payload of run_query_pipeline.                 *)
(***************************************************************************)
\* run_query_pipeline has returned its success object
Succeeded == pc = "done" /\ ret.kind = "return" /\ "payload" \in DOMAIN ret.value

\* C19: in the success object of run_query_pipeline every row of
\* payload.rows is as long as payload.columns, and its i-th value is the
\* serialized value of the i-th column of that row of the engine's result,
\* also when two result columns have the same name.
RowsAlignWithColumns ==
    Succeeded =>
        /\ ret.value.payload.columns = cursor.columns
        /\ Len(ret.value.payload.rows) = Len(cursor.tuples)
        /\ \A k \in DOMAIN ret.value.payload.rows :
              /\ Len(ret.value.payload.rows[k]) = Len(ret.value.payload.columns)
              /\ \A i \in DOMAIN ret.value.payload.rows[k] :
                    ret.value.payload.rows[k][i] = safe_serialize(cursor.tuples[k][i])

\* the values JSON has a type for
JsonNative == {"int", "bool", "str", "NoneType"}

\* C20: the serializer leaves the JSON-native values of the result rows as
\* they are: every integer, boolean, string or null of a row that
\* execute_read_query returned is in the payload unchanged.
JsonNativeUnchanged ==
    Succeeded =>
        \A k \in DOMAIN result.rows :
            \A i \in DOMAIN result.rows[k] :
                result.rows[k][i][2].type \in JsonNative
                    => ret.value.payload.rows[k][i] = result.rows[k][i][2]

(***************************************************************************)
(* Properties of string literals and of the selector's answers.            *)
(***************************************************************************)
\* the statement s up to the opening quote of its first string literal and
\* from the closing quote on; s itself when it has no literal
AroundLiteral(s, open) ==
    IF open = 0 \/ IndexFrom(s, "'", open + 1) = 0 THEN <<s>>
    ELSE <<Slice(s, 1, open), Slice(s, IndexFrom(s, "'", open + 1), Len(s))>>

\* alt is sql with other text inside its first string literal
LiteralReplaced ==
    /\ alt # sql
    /\ Len(AroundLiteral(sql, IndexFrom(sql, "'", 1))) = 2
    /\ AroundLiteral(alt, IndexFrom(alt, "'", 1)) = AroundLiteral(sql, IndexFrom(sql, "'", 1))

\* C21: what enforce_schema_strictly answers does not depend on the text
\* inside a string literal: two statements that differ there only get the
\* same verdict and the same reported identifier.
LiteralTextIgnored == (pc = "done" /\ LiteralReplaced) => enf_alt = enf

\* C22: in a run of run_query_pipeline the schema context the statement is
\* validated against is built from the list of tables that the generation
\* call built its prompt context from.
ValidatesAgainstShownTables ==
    pc \in {"rq_validate", "rq_enforce", "rq_execute", "rq_shape"}
        => /\ relevant_tables = gen_tables
           /\ TablesOf(schema_summary) = generation.context

====
